---- MODULE Spec2Model ----
(***************************************************************************)
(* Command lifecycle coordination of agent-executor: the control server's  *)
(* command store (SQLite table `commands`), its claim / submit / recover   *)
(* operations, and the agent's poll loop with its local idempotency store. *)
(***************************************************************************)
EXTENDS Integers, Sequences, FiniteSets, TLC

\* ---------------------------------------------------------------- bounds
NumAgents == 2
MaxCommands == 2
MaxTime == 1
MaxRestarts == 2
MaxCrashes == 1
MaxExecCount == 2

Agents == 1..NumAgents
CommandIds == 1..MaxCommands
\* one id that is never inserted, for requests that name an unknown command
UnknownId == MaxCommands + 1
CommandTypes == {"DELAY", "HTTP_GET_JSON"}
\* DelayResult / HttpGetJsonResult values the executors return
DelayResults == {[ok |-> TRUE, tookMs |-> 1]}
HttpGetJsonResults ==
    {[status |-> 200, truncated |-> FALSE, bytesReturned |-> 2, error |-> "null"]}
Results == DelayResults \cup HttpGetJsonResults
ResultsOf(type) == IF type = "DELAY" THEN DelayResults ELSE HttpGetJsonResults
\* the agents launched with --random-failures or --kill-after
RandomFailures == {1}

\* SQL NULL / JS null of each column type
NullAgent == 0
NullTime == -1
NullResult == [null |-> TRUE]
NoCommand == [id |-> 0]
\* a request body whose result / agentId is missing or falsy
MissingResult == [missing |-> TRUE]

VARIABLES
    commands,     \* the commands table: id -> row
    server,       \* "up" (listening) or "down" (process not running)
    now,          \* Date.now()
    lastResp,     \* the last HTTP response the control server sent
    pc,           \* per agent: position in main()'s loop
    cur,          \* per agent: the command returned by pollForCommand
    res,          \* per agent: the result returned by the executor
    guard,        \* per agent: executed_commands table, commandId -> executedAt
    lastError,    \* per agent: what the current sleep / exit of the loop logged
    restarts,     \* number of control-server restarts so far
    crashes,      \* number of agent process exits so far
    http,         \* the last call of executeHttpGetJson: length of the fetched
                  \* text and the result returned
    \* history variables (observations, no effect on the program)
    claimCount,   \* id -> number of claims that returned id since the last recover
    acceptCount,  \* id -> number of accepted submits
    execDone,     \* agent -> id -> number of successful executor returns (capped)
    fenced,       \* agent -> a recover ran since the agent received its command
    win,          \* claim window since the last create / recover
    claimedFrom,  \* the status the row had that the last request claimed, or "none"
    lastCall,     \* the values of the server's last operation: the command a
                  \* claim returned, the count recover() returned, the result
                  \* a submit carried
    lostMark,     \* agent -> ids whose executor returned and the agent was killed
                  \*          before markCommandExecuted
    lostExec,     \* agent -> ids whose executor was running when the agent was killed
    lastEvent,    \* id -> the last claim or recover that wrote the row of id
    lostReport,   \* agent -> ids recorded in the guard when the agent was killed
                  \*          before its submitResult was answered
    abandoned     \* agent -> ids whose cycle on the agent ended without an
                  \*          accepted submit, until the id is claimed again or
                  \*          a recover runs

vars == <<commands, server, now, lastResp, pc, cur, res, guard, lastError,
          restarts, crashes, http, claimCount, acceptCount, execDone, fenced, win,
          claimedFrom, lastCall, lostMark, lostExec, lastEvent, lostReport, abandoned>>

serverVars == <<commands, server, now, lastResp, restarts>>
agentVars == <<pc, cur, res, guard, lastError, crashes, http>>
histVars == <<claimCount, acceptCount, execDone, fenced, win, claimedFrom, lastCall,
              lostMark, lostExec, lastEvent, lostReport, abandoned>>

\* ------------------------------------------------------- JSON conversion
\* JSON.stringify / JSON.parse of payloads and results: the stored column is
\* TEXT, the API value is the parsed object.
JSONStringify(v) == [json |-> v]
JSONParse(s) == s.json

PayloadOf(type) == IF type = "DELAY" THEN [ms |-> 1] ELSE [url |-> "u"]

\* ----------------------------------------------------- commands repository
Eligible(cmds) == {id \in DOMAIN cmds : cmds[id].status \in {"PENDING", "FAILED"}}

\* Mutant of findNextPending: the WHERE clause also lets RUNNING rows through.
findNextPending_AlsoRunning(cmds) ==
    {id \in DOMAIN cmds :
        /\ cmds[id].status \in {"PENDING", "FAILED", "RUNNING"}
        /\ \A other \in DOMAIN cmds :
              cmds[other].status \in {"PENDING", "FAILED", "RUNNING"}
                  => cmds[id].createdAt <= cmds[other].createdAt}

\* Mutant of findNextPending: WHERE status = 'PENDING', FAILED rows are skipped.
findNextPending_PendingOnly(cmds) ==
    {id \in DOMAIN cmds :
        /\ cmds[id].status = "PENDING"
        /\ \A other \in DOMAIN cmds :
              cmds[other].status = "PENDING"
                  => cmds[id].createdAt <= cmds[other].createdAt}

\* Mutant of findNextPending: ORDER BY createdAt DESC.
findNextPending_Newest(cmds) ==
    {id \in Eligible(cmds) :
        \A other \in Eligible(cmds) : cmds[id].createdAt >= cmds[other].createdAt}

\* Mutant of findNextPending: ORDER BY status ASC, createdAt ASC (FAILED first).
findNextPending_FailedFirst(cmds) ==
    {id \in Eligible(cmds) :
        \A other \in Eligible(cmds) :
            \/ cmds[id].status = "FAILED" /\ cmds[other].status = "PENDING"
            \/ /\ cmds[id].status = cmds[other].status
               /\ cmds[id].createdAt <= cmds[other].createdAt}

\* Mutant of findNextPending: the WHERE clause is missing.
findNextPending_AnyStatus(cmds) ==
    {id \in DOMAIN cmds :
        \A other \in DOMAIN cmds : cmds[id].createdAt <= cmds[other].createdAt}

\* SELECT ... WHERE status IN ('PENDING','FAILED') ORDER BY createdAt ASC LIMIT 1
\* The set of rows the query may return: SQL leaves the order of rows with
\* equal createdAt unspecified.  Empty set: no row.
findNextPending(cmds) ==
    {id \in Eligible(cmds) :
        \A other \in Eligible(cmds) : cmds[id].createdAt <= cmds[other].createdAt}

\* Mutant of create: the INSERT also stamps assignedAt.
create_AssignedAtNow(cmds, id, type, payload, t) ==
    [x \in DOMAIN cmds \cup {id} |->
        IF x = id
        THEN [id |-> id, type |-> type, payload |-> JSONStringify(payload),
              status |-> "PENDING", result |-> NullResult, agentId |-> NullAgent,
              createdAt |-> t, updatedAt |-> t, assignedAt |-> t]
        ELSE cmds[x]]

create(cmds, id, type, payload, t) ==
    [x \in DOMAIN cmds \cup {id} |->
        IF x = id
        THEN [id |-> id, type |-> type, payload |-> JSONStringify(payload),
              status |-> "PENDING", result |-> NullResult, agentId |-> NullAgent,
              createdAt |-> t, updatedAt |-> t, assignedAt |-> NullTime]
        ELSE cmds[x]]

findById(cmds, id) == IF id \in DOMAIN cmds THEN cmds[id] ELSE NoCommand

\* Mutant of assignToAgent: the UPDATE forgets SET status = 'RUNNING'.
assignToAgent_KeepStatus(cmds, id, agentId, t) ==
    [cmds EXCEPT ![id].agentId = agentId, ![id].updatedAt = t, ![id].assignedAt = t]

\* Mutant of assignToAgent: the UPDATE forgets SET agentId = ?.
assignToAgent_NoOwner(cmds, id, agentId, t) ==
    [cmds EXCEPT ![id].status = "RUNNING", ![id].updatedAt = t, ![id].assignedAt = t]

\* Mutant of assignToAgent: assignedAt is bound to 0 instead of now.
assignToAgent_ZeroAssignedAt(cmds, id, agentId, t) ==
    [cmds EXCEPT ![id].status = "RUNNING", ![id].agentId = agentId,
                 ![id].updatedAt = t, ![id].assignedAt = 0]

\* Mutant of assignToAgent: the UPDATE forgets SET updatedAt = ?.
assignToAgent_KeepsUpdatedAt(cmds, id, agentId, t) ==
    [cmds EXCEPT ![id].status = "RUNNING", ![id].agentId = agentId,
                 ![id].assignedAt = t]

assignToAgent(cmds, id, agentId, t) ==
    [cmds EXCEPT ![id].status = "RUNNING", ![id].agentId = agentId,
                 ![id].updatedAt = t, ![id].assignedAt = t]

\* Mutant of updateResult: the UPDATE also sets agentId = NULL.
updateResult_ClearsOwner(cmds, id, result, t) ==
    [x \in DOMAIN cmds |->
        IF x = id
        THEN [cmds[x] EXCEPT !.result = JSONStringify(result),
                             !.status = "COMPLETED", !.updatedAt = t,
                             !.agentId = NullAgent]
        ELSE cmds[x]]

\* Mutant of updateResult: the UPDATE forgets SET status = 'COMPLETED'.
updateResult_NoStatus(cmds, id, result, t) ==
    [x \in DOMAIN cmds |->
        IF x = id
        THEN [cmds[x] EXCEPT !.result = JSONStringify(result), !.updatedAt = t]
        ELSE cmds[x]]

\* Mutant of updateResult: updatedAt is set to the row's createdAt.
updateResult_StampsCreatedAt(cmds, id, result, t) ==
    [x \in DOMAIN cmds |->
        IF x = id
        THEN [cmds[x] EXCEPT !.result = JSONStringify(result),
                             !.status = "COMPLETED",
                             !.updatedAt = cmds[x].createdAt]
        ELSE cmds[x]]

\* Mutant of updateResult: the UPDATE also sets assignedAt = NULL.
updateResult_ClearsAssignedAt(cmds, id, result, t) ==
    [x \in DOMAIN cmds |->
        IF x = id
        THEN [cmds[x] EXCEPT !.result = JSONStringify(result),
                             !.status = "COMPLETED", !.updatedAt = t,
                             !.assignedAt = NullTime]
        ELSE cmds[x]]

updateResult(cmds, id, result, t) ==
    [x \in DOMAIN cmds |->
        IF x = id
        THEN [cmds[x] EXCEPT !.result = JSONStringify(result),
                             !.status = "COMPLETED", !.updatedAt = t]
        ELSE cmds[x]]

\* Mutant of resetRunningToFailed: the UPDATE forgets SET assignedAt = NULL.
resetRunningToFailed_KeepAssignedAt(cmds, t) ==
    [x \in DOMAIN cmds |->
        IF cmds[x].status = "RUNNING"
        THEN [cmds[x] EXCEPT !.status = "FAILED", !.updatedAt = t,
                             !.agentId = NullAgent]
        ELSE cmds[x]]

\* Mutant of resetRunningToFailed: WHERE status IN ('RUNNING', 'FAILED').
resetRunningToFailed_AlsoFailed(cmds, t) ==
    [x \in DOMAIN cmds |->
        IF cmds[x].status \in {"RUNNING", "FAILED"}
        THEN [cmds[x] EXCEPT !.status = "FAILED", !.updatedAt = t,
                             !.agentId = NullAgent, !.assignedAt = NullTime]
        ELSE cmds[x]]

\* Mutant of resetRunningToFailed: SET status = 'PENDING'.
resetRunningToFailed_ToPending(cmds, t) ==
    [x \in DOMAIN cmds |->
        IF cmds[x].status = "RUNNING"
        THEN [cmds[x] EXCEPT !.status = "PENDING", !.updatedAt = t,
                             !.agentId = NullAgent, !.assignedAt = NullTime]
        ELSE cmds[x]]

\* Mutant of resetRunningToFailed: DELETE FROM commands WHERE status = 'RUNNING'.
resetRunningToFailed_Deletes(cmds, t) ==
    [x \in {y \in DOMAIN cmds : cmds[y].status # "RUNNING"} |-> cmds[x]]

\* Mutant of resetRunningToFailed: the UPDATE only sets updatedAt, the
\* command stays RUNNING and bound to its agent.
resetRunningToFailed_OnlyStamps(cmds, t) ==
    [x \in DOMAIN cmds |->
        IF cmds[x].status = "RUNNING"
        THEN [cmds[x] EXCEPT !.updatedAt = t]
        ELSE cmds[x]]

resetRunningToFailed(cmds, t) ==
    [x \in DOMAIN cmds |->
        IF cmds[x].status = "RUNNING"
        THEN [cmds[x] EXCEPT !.status = "FAILED", !.updatedAt = t,
                             !.agentId = NullAgent, !.assignedAt = NullTime]
        ELSE cmds[x]]

resetRunningToFailedChanges(cmds) ==
    Cardinality({x \in DOMAIN cmds : cmds[x].status = "RUNNING"})

mapRowToCommand(row) ==
    [id |-> row.id, type |-> row.type, payload |-> JSONParse(row.payload),
     status |-> row.status,
     result |-> IF row.result # NullResult THEN JSONParse(row.result) ELSE NullResult,
     agentId |-> row.agentId, createdAt |-> row.createdAt,
     updatedAt |-> row.updatedAt, assignedAt |-> row.assignedAt]

\* --------------------------------------------------------- commands service
getCommandById(cmds, id) ==
    IF findById(cmds, id) = NoCommand THEN NoCommand
    ELSE mapRowToCommand(findById(cmds, id))

\* Mutant of ClaimedCommand: the row read before the UPDATE is returned.
ClaimedCommand_StaleRow(cmds, id, agentId, t) == mapRowToCommand(cmds[id])

\* The command returned by getNextPendingCommand when the transaction picked row id.
ClaimedCommand(cmds, id, agentId, t) ==
    mapRowToCommand([cmds[id] EXCEPT !.status = "RUNNING", !.agentId = agentId,
                                     !.updatedAt = t, !.assignedAt = t])

\* ------------------------------------------------------- history bookkeeping
\* elig: the commands eligible when the window opened; returned: the ids the
\* claims of the window returned; dup: some id was returned twice; early: a
\* claim returned none before every command of elig had been returned;
\* none: some claim of the window returned none.
NewWindow(cmds) ==
    [elig |-> Eligible(cmds), returned |-> {}, dup |-> FALSE, early |-> FALSE,
     none |-> FALSE]

WinAfterClaim(w, id) ==
    IF id = 0
    THEN [w EXCEPT !.none = TRUE, !.early = @ \/ (w.returned # w.elig)]
    ELSE [w EXCEPT !.returned = @ \cup {id}, !.dup = @ \/ (id \in w.returned)]

Min(a, b) == IF a <= b THEN a ELSE b

\* no command, no count, no result
NoCount == -1
NoCall == [command |-> NoCommand, count |-> NoCount, result |-> NullResult]

\* ------------------------------------------------------------------- Init
\* ------------------------------------------------ agent: HTTP_GET_JSON executor
\* const MAX_BODY_SIZE = 1024 * 100
MAX_BODY_SIZE == 1024 * 100

\* The lengths of fetched texts tried: every length within BodyWindow of the
\* limit, the empty text and the 150KB text of the executor's test.
BodyWindow == 60
BodyLengths ==
    ((MAX_BODY_SIZE - BodyWindow)..(MAX_BODY_SIZE + BodyWindow)) \cup {0, 150 * 1024}

\* executeHttpGetJson has not been called.
NoFetch == [length |-> 0, result |-> NullResult]

\* executeHttpGetJson when fetch and text() succeed, for a text of `length`
\* characters: bytesReturned = text.length, truncated = bytesReturned >
\* MAX_BODY_SIZE, body = the text or its first MAX_BODY_SIZE characters (the
\* body is modelled by its length).
executeHttpGetJson(length) ==
    [status |-> 200,
     bodyLength |-> IF length > MAX_BODY_SIZE THEN MAX_BODY_SIZE ELSE length,
     truncated |-> length > MAX_BODY_SIZE,
     bytesReturned |-> length,
     error |-> "null"]

\* executeHttpGetJson when fetch or text() throws: the catch block.
executeHttpGetJsonFailed ==
    [status |-> 0, bodyLength |-> 0, truncated |-> FALSE, bytesReturned |-> 0,
     error |-> "message"]

\* The events that bind a command to an agent or take it back: the UPDATE of
\* assignToAgent for an agent, in the run-th run of the control server, and
\* the UPDATE of resetRunningToFailed.
NoEvent == [kind |-> "none", agentId |-> NullAgent, run |-> 0]
ClaimEvent(agentId, run) == [kind |-> "claim", agentId |-> agentId, run |-> run]
RecoverEvent == [kind |-> "recover", agentId |-> NullAgent, run |-> 0]

Init ==
    /\ commands = << >>
    /\ server = "up"
    /\ now = 0
    /\ lastResp = [op |-> "none", id |-> 0, agentId |-> NullAgent, status |-> 0]
    /\ pc = [a \in Agents |-> "dead"]
    /\ cur = [a \in Agents |-> NoCommand]
    /\ res = [a \in Agents |-> NullResult]
    /\ guard = [a \in Agents |-> << >>]
    /\ lastError = [a \in Agents |-> "none"]
    /\ restarts = 0
    /\ crashes = 0
    /\ http = NoFetch
    /\ claimCount = [id \in CommandIds |-> 0]
    /\ acceptCount = [id \in CommandIds |-> 0]
    /\ execDone = [a \in Agents |-> [id \in CommandIds |-> 0]]
    /\ fenced = [a \in Agents |-> FALSE]
    /\ win = NewWindow(<< >>)
    /\ claimedFrom = "none"
    /\ lastCall = NoCall
    /\ lostMark = [a \in Agents |-> {}]
    /\ lostExec = [a \in Agents |-> {}]
    /\ lastEvent = [id \in CommandIds |-> NoEvent]
    /\ lostReport = [a \in Agents |-> {}]
    /\ abandoned = [a \in Agents |-> {}]


\* -------------------------------------------------- control server handlers
Response(op, id, agentId, status) ==
    [op |-> op, id |-> id, agentId |-> agentId, status |-> status]

\* CommandsController.createCommand -> CommandsService.createCommand
\* randomUUID() is a fresh id: the k-th command created is named k.
CreateCommand(id, type) ==
    /\ server = "up"
    /\ id = Cardinality(DOMAIN commands) + 1
    /\ id \in CommandIds
    /\ commands' = create(commands, id, type, PayloadOf(type), now)
    /\ lastResp' = Response("create", id, NullAgent, 201)
    /\ win' = NewWindow(commands')
    /\ claimedFrom' = "none"
    /\ lastCall' = NoCall
    /\ UNCHANGED <<server, now, restarts, claimCount, acceptCount, execDone, fenced,
                   lastEvent, lostMark, lostExec, lostReport, abandoned>>
    /\ UNCHANGED agentVars

\* CommandsService.getNextPendingCommand(agentId), one transaction.
\* picked = 0: the query found no row, null is returned and nothing is written.
getNextPendingCommand(agentId, picked) ==
    /\ IF findNextPending(commands) = {}
       THEN picked = 0
       ELSE picked \in findNextPending(commands)
    /\ commands' = IF picked = 0 THEN commands
                   ELSE assignToAgent(commands, picked, agentId, now)
    /\ claimCount' = IF picked = 0 THEN claimCount
                     ELSE [claimCount EXCEPT ![picked] = Min(@ + 1, 2)]
    /\ win' = WinAfterClaim(win, picked)
    /\ lastEvent' = IF picked = 0 THEN lastEvent
                    ELSE [lastEvent EXCEPT ![picked] = ClaimEvent(agentId, restarts)]
    /\ abandoned' = [a \in Agents |-> abandoned[a] \ {picked}]
    /\ claimedFrom' = IF picked = 0 THEN "none" ELSE commands[picked].status
    /\ lastCall' = [NoCall EXCEPT !.command =
            IF picked = 0 THEN NoCommand
            ELSE ClaimedCommand(commands, picked, agentId, now)]

\* CommandsController.getNextCommand: 204 when null, else 200 with the command
getNextCommand(agentId, picked) ==
    IF agentId = NullAgent
    THEN /\ picked = 0
         /\ lastResp' = Response("next", 0, agentId, 4000)
         /\ claimedFrom' = "none"
         /\ lastCall' = NoCall
         /\ UNCHANGED <<commands, claimCount, win, lastEvent, abandoned>>
    ELSE /\ getNextPendingCommand(agentId, picked)
         /\ lastResp' = Response("next", picked, agentId,
                                  IF picked = 0 THEN 204 ELSE 200)

\* Mutant of SubmitStatus: the check of command.status is missing.
SubmitStatus_NoStateCheck(cmds, id, agentId, result) ==
    IF result = MissingResult \/ agentId = NullAgent THEN 4000
    ELSE IF getCommandById(cmds, id) = NoCommand THEN 404
    ELSE IF getCommandById(cmds, id).agentId # agentId THEN 4002
    ELSE 200

\* Mutant of SubmitStatus: the check of command.agentId is missing.
SubmitStatus_NoOwnerCheck(cmds, id, agentId, result) ==
    IF result = MissingResult \/ agentId = NullAgent THEN 4000
    ELSE IF getCommandById(cmds, id) = NoCommand THEN 404
    ELSE IF getCommandById(cmds, id).status # "RUNNING" THEN 4001
    ELSE 200

\* Mutant of SubmitStatus: a FAILED command is accepted as well.
SubmitStatus_AcceptsFailed(cmds, id, agentId, result) ==
    IF result = MissingResult \/ agentId = NullAgent THEN 4000
    ELSE IF getCommandById(cmds, id) = NoCommand THEN 404
    ELSE IF getCommandById(cmds, id).status \notin {"RUNNING", "FAILED"} THEN 4001
    ELSE IF getCommandById(cmds, id).status = "RUNNING"
            /\ getCommandById(cmds, id).agentId # agentId THEN 4002
    ELSE 200

\* Mutant of SubmitStatus: an agentId mismatch is reported as a state error.
SubmitStatus_MismatchAsInvalidState(cmds, id, agentId, result) ==
    IF result = MissingResult \/ agentId = NullAgent THEN 4000
    ELSE IF getCommandById(cmds, id) = NoCommand THEN 404
    ELSE IF getCommandById(cmds, id).status # "RUNNING" THEN 4001
    ELSE IF getCommandById(cmds, id).agentId # agentId THEN 4001
    ELSE 200

\* Mutant of SubmitStatus: the agentId is checked before the status.
SubmitStatus_OwnerCheckFirst(cmds, id, agentId, result) ==
    IF result = MissingResult \/ agentId = NullAgent THEN 4000
    ELSE IF getCommandById(cmds, id) = NoCommand THEN 404
    ELSE IF getCommandById(cmds, id).agentId # agentId THEN 4002
    ELSE IF getCommandById(cmds, id).status # "RUNNING" THEN 4001
    ELSE 200

\* The status of the reply of CommandsController.updateCommandResult:
\* 4000 Missing result or agentId, 404 Command not found, 4001 Command is not
\* in RUNNING state, 4002 Command is not assigned to this agent (all three
\* HTTP 400, told apart by their message), 200 success.
SubmitStatus(cmds, id, agentId, result) ==
    IF result = MissingResult \/ agentId = NullAgent THEN 4000
    ELSE IF getCommandById(cmds, id) = NoCommand THEN 404
    ELSE IF getCommandById(cmds, id).status # "RUNNING" THEN 4001
    ELSE IF getCommandById(cmds, id).agentId # agentId THEN 4002
    ELSE 200

\* CommandsController.updateCommandResult
updateCommandResult(id, agentId, result) ==
    /\ lastResp' = Response("result", id, agentId, SubmitStatus(commands, id, agentId, result))
    /\ commands' = IF SubmitStatus(commands, id, agentId, result) = 200
                   THEN updateResult(commands, id, result, now)
                   ELSE commands
    /\ acceptCount' = IF SubmitStatus(commands, id, agentId, result) = 200
                      THEN [acceptCount EXCEPT ![id] = Min(@ + 1, 2)]
                      ELSE acceptCount
    /\ claimedFrom' = "none"
    /\ lastCall' = [NoCall EXCEPT !.result = result]

\* Mutant of recoverRunningCommands: start() does not run the recovery.
recoverRunningCommands_Skipped(cmds, t) == cmds

\* CommandsService.recoverRunningCommands
recoverRunningCommands(cmds, t) == resetRunningToFailed(cmds, t)

\* The control-server process dies (crash, SIGINT, SIGTERM).
ServerCrash ==
    /\ server = "up"
    /\ restarts < MaxRestarts
    /\ server' = "down"
    /\ lastResp' = Response("none", 0, NullAgent, 0)
    /\ claimedFrom' = "none"
    /\ lastCall' = NoCall
    /\ UNCHANGED <<commands, now, restarts>>
    /\ UNCHANGED agentVars
    /\ UNCHANGED <<claimCount, acceptCount, execDone, fenced, win, lastEvent, lostMark,
                   lostExec, lostReport, abandoned>>

\* start(): initializeDatabase(); runRecovery(...); fastify.listen()
ServerStart ==
    /\ server = "down"
    /\ server' = "up"
    /\ restarts' = restarts + 1
    /\ commands' = recoverRunningCommands(commands, now)
    /\ lastCall' = [NoCall EXCEPT !.count = resetRunningToFailedChanges(commands)]
    /\ claimCount' = [id \in CommandIds |-> 0]
    /\ fenced' = [a \in Agents |-> cur[a] # NoCommand]
    /\ abandoned' = [a \in Agents |-> {}]
    /\ win' = NewWindow(commands')
    /\ lastEvent' = [id \in CommandIds |->
            IF id \in DOMAIN commands /\ commands[id].status = "RUNNING"
            THEN RecoverEvent ELSE lastEvent[id]]
    /\ claimedFrom' = "none"
    /\ UNCHANGED <<now, lastResp, acceptCount, execDone, lostMark, lostExec,
                   lostReport>>
    /\ UNCHANGED agentVars

\* Date.now() advances.
Tick ==
    /\ now < MaxTime
    /\ now' = now + 1
    /\ UNCHANGED <<commands, server, lastResp, restarts>>
    /\ UNCHANGED agentVars
    /\ UNCHANGED histVars

\* Date.now() is the wall clock: an adjustment of the system time sets it back.
ClockStepBack ==
    /\ now > 0
    /\ now' = now - 1
    /\ UNCHANGED <<commands, server, lastResp, restarts>>
    /\ UNCHANGED agentVars
    /\ UNCHANGED histVars

\* A client calls GET /commands/:id (CommandsController.getCommandById):
\* 404 for an unknown id, else status, result and agentId of the command.
RawGet(id) ==
    /\ server = "up"
    /\ lastResp' = Response("get", id, NullAgent,
                            IF getCommandById(commands, id) = NoCommand
                            THEN 404 ELSE 200)
    /\ claimedFrom' = "none"
    /\ lastCall' = NoCall
    /\ UNCHANGED <<commands, server, now, restarts>>
    /\ UNCHANGED <<claimCount, acceptCount, execDone, fenced, win, lastEvent, lostMark,
                   lostExec, lostReport, abandoned>>
    /\ UNCHANGED agentVars

\* A client calls GET /commands (CommandsController.getAllCommands).
RawList ==
    /\ server = "up"
    /\ lastResp' = Response("list", 0, NullAgent, 200)
    /\ claimedFrom' = "none"
    /\ lastCall' = NoCall
    /\ UNCHANGED <<commands, server, now, restarts>>
    /\ UNCHANGED <<claimCount, acceptCount, execDone, fenced, win, lastEvent, lostMark,
                   lostExec, lostReport, abandoned>>
    /\ UNCHANGED agentVars

\* A client other than a poll loop calls GET /commands/next.
RawClaim(agentId, picked) ==
    /\ server = "up"
    /\ getNextCommand(agentId, picked)
    /\ UNCHANGED <<server, now, restarts, acceptCount, execDone, fenced, lostMark,
                   lostExec, lostReport>>
    /\ UNCHANGED agentVars

\* A client other than a poll loop calls PUT /commands/:id/result.
RawSubmit(id, agentId, result) ==
    /\ server = "up"
    /\ updateCommandResult(id, agentId, result)
    /\ UNCHANGED <<server, now, restarts, claimCount, execDone, fenced, win, lastEvent,
                   lostMark, lostExec, lostReport, abandoned>>
    /\ UNCHANGED agentVars


\* ------------------------------------------------------ agent: idempotency
\* Mutant of isCommandExecuted: the lookup never finds a row.
isCommandExecuted_Never(g, commandId) == FALSE

isCommandExecuted(g, commandId) == commandId \in DOMAIN g

\* Mutant of markCommandExecuted: the INSERT is lost.
markCommandExecuted_Forgets(g, commandId, t) == g

\* Mutant of markCommandExecuted: INSERT OR REPLACE.
markCommandExecuted_Replaces(g, commandId, t) ==
    [x \in DOMAIN g \cup {commandId} |-> IF x = commandId THEN t ELSE g[x]]

\* Mutant of markCommandExecuted: the table is emptied before the INSERT.
markCommandExecuted_Truncates(g, commandId, t) ==
    [x \in {commandId} |-> IF commandId \in DOMAIN g THEN g[commandId] ELSE t]

\* INSERT OR IGNORE INTO executed_commands (commandId, executedAt)
markCommandExecuted(g, commandId, t) ==
    IF commandId \in DOMAIN g THEN g
    ELSE [x \in DOMAIN g \cup {commandId} |-> IF x = commandId THEN t ELSE g[x]]

\* ------------------------------------------------------- agent: poll loop
\* The loop leaves the current cycle: `command` and `result` go out of scope.
EndCycle(a, nextPc) ==
    /\ pc' = [pc EXCEPT ![a] = nextPc]
    /\ cur' = [cur EXCEPT ![a] = NoCommand]
    /\ res' = [res EXCEPT ![a] = NullResult]
    /\ fenced' = [fenced EXCEPT ![a] = FALSE]

\* Mutant of CatchError: the error is rethrown and main().catch exits.
CatchError_Exits(a, what) ==
    /\ EndCycle(a, "dead")
    /\ lastError' = [lastError EXCEPT ![a] = what]
    /\ abandoned' = [abandoned EXCEPT ![a] =
            IF cur[a] = NoCommand THEN @ ELSE @ \cup {cur[a].id}]

\* catch (error) { logger.error(...); await sleep(config.pollInterval); }
CatchError(a, what) ==
    /\ EndCycle(a, "sleep")
    /\ lastError' = [lastError EXCEPT ![a] = what]
    /\ abandoned' = [abandoned EXCEPT ![a] =
            IF cur[a] = NoCommand THEN @ ELSE @ \cup {cur[a].id}]

\* The agent process is launched: main() up to the while loop.
AgentStart(a) ==
    /\ pc[a] = "dead"
    /\ pc' = [pc EXCEPT ![a] = "poll"]
    /\ lastError' = [lastError EXCEPT ![a] = "none"]
    /\ UNCHANGED <<cur, res, guard, crashes, http>>
    /\ UNCHANGED serverVars
    /\ UNCHANGED histVars

\* Mutant of HookCrash: the hooks are also evaluated in the middle of a cycle.
HookCrash_AnyPoint(a) ==
    /\ pc[a] # "dead"
    /\ a \in RandomFailures
    /\ crashes < MaxCrashes
    /\ crashes' = crashes + 1
    /\ UNCHANGED http
    /\ EndCycle(a, "dead")
    /\ lastError' = [lastError EXCEPT ![a] = "Simulating crash"]
    /\ UNCHANGED guard
    /\ UNCHANGED serverVars
    /\ UNCHANGED <<claimCount, acceptCount, execDone, win, lastEvent, claimedFrom,
                   lastCall, lostMark, lostExec, lostReport, abandoned>>

\* Top of the loop: --kill-after / --random-failures call process.exit(1).
HookCrash(a) ==
    /\ pc[a] = "poll"
    /\ a \in RandomFailures
    /\ crashes < MaxCrashes
    /\ crashes' = crashes + 1
    /\ UNCHANGED http
    /\ EndCycle(a, "dead")
    /\ lastError' = [lastError EXCEPT ![a] = "Simulating crash"]
    /\ UNCHANGED guard
    /\ UNCHANGED serverVars
    /\ UNCHANGED <<claimCount, acceptCount, execDone, win, lastEvent, claimedFrom,
                   lastCall, lostMark, lostExec, lostReport, abandoned>>

\* The agent process is killed from outside at any point of the cycle; its
\* memory is lost, its idempotency database stays.
AgentKill(a) ==
    /\ pc[a] # "dead"
    /\ crashes < MaxCrashes
    /\ crashes' = crashes + 1
    /\ UNCHANGED http
    /\ EndCycle(a, "dead")
    /\ lastError' = [lastError EXCEPT ![a] = "killed"]
    /\ lostMark' = [lostMark EXCEPT ![a] =
            IF pc[a] = "executed" THEN @ \cup {cur[a].id} ELSE @]
    /\ lostReport' = [lostReport EXCEPT ![a] =
            IF pc[a] = "submit" THEN @ \cup {cur[a].id} ELSE @]
    /\ lostExec' = [lostExec EXCEPT ![a] =
            IF pc[a] = "executing" THEN @ \cup {cur[a].id} ELSE @]
    /\ abandoned' = [abandoned EXCEPT ![a] =
            IF cur[a] = NoCommand THEN @ ELSE @ \cup {cur[a].id}]
    /\ UNCHANGED guard
    /\ UNCHANGED serverVars
    /\ UNCHANGED <<claimCount, acceptCount, execDone, win, lastEvent, claimedFrom,
                   lastCall>>

\* Mutant of Poll: the loop also polls before the submit of the command it
\* holds, and drops that command.
Poll_BeforeSubmit(a, picked) ==
    /\ pc[a] \in {"poll", "submit"}
    /\ server = "up"
    /\ getNextCommand(a, picked)
    /\ pc' = [pc EXCEPT ![a] = IF picked = 0 THEN "sleep" ELSE "received"]
    /\ cur' = [cur EXCEPT ![a] = IF picked = 0 THEN NoCommand
                                 ELSE ClaimedCommand(commands, picked, a, now)]
    /\ fenced' = [fenced EXCEPT ![a] = FALSE]
    /\ UNCHANGED <<res, guard, lastError, crashes, http>>
    /\ UNCHANGED <<server, now, restarts, acceptCount, execDone, lostMark, lostExec,
                   lostReport>>

\* const command = await pollForCommand(config.agentId), answered by the server
Poll(a, picked) ==
    /\ pc[a] = "poll"
    /\ server = "up"
    /\ getNextCommand(a, picked)
    /\ pc' = [pc EXCEPT ![a] = IF picked = 0 THEN "sleep" ELSE "received"]
    /\ cur' = [cur EXCEPT ![a] = IF picked = 0 THEN NoCommand
                                 ELSE ClaimedCommand(commands, picked, a, now)]
    /\ fenced' = [fenced EXCEPT ![a] = FALSE]
    /\ UNCHANGED <<res, guard, lastError, crashes, http>>
    /\ UNCHANGED <<server, now, restarts, acceptCount, execDone, lostMark, lostExec,
                   lostReport>>

\* pollForCommand throws: the server is down or the request fails.
PollFail(a) ==
    /\ pc[a] = "poll"
    /\ CatchError(a, "transport")
    /\ UNCHANGED <<guard, crashes, http>>
    /\ UNCHANGED serverVars
    /\ UNCHANGED <<claimCount, acceptCount, execDone, win, lastEvent, claimedFrom,
                   lastCall, lostMark, lostExec, lostReport>>

\* await sleep(config.pollInterval) ends, next iteration
Sleep(a) ==
    /\ pc[a] = "sleep"
    /\ pc' = [pc EXCEPT ![a] = "poll"]
    /\ lastError' = [lastError EXCEPT ![a] = "none"]
    /\ UNCHANGED <<cur, res, guard, crashes, http>>
    /\ UNCHANGED serverVars
    /\ UNCHANGED histVars

\* Mutant of ExecStart: the id is recorded before the executor is invoked.
ExecStart_MarksFirst(a) ==
    /\ pc[a] = "received"
    /\ IF isCommandExecuted(guard[a], cur[a].id)
       THEN CatchError(a, "Command already executed") /\ UNCHANGED guard
       ELSE /\ pc' = [pc EXCEPT ![a] = "executing"]
            /\ guard' = [guard EXCEPT ![a] = markCommandExecuted(@, cur[a].id, now)]
            /\ UNCHANGED <<cur, res, lastError, fenced, abandoned>>
    /\ UNCHANGED <<crashes, http>>
    /\ UNCHANGED serverVars
    /\ UNCHANGED <<claimCount, acceptCount, execDone, win, lastEvent, claimedFrom,
                   lastCall, lostMark, lostExec, lostReport>>

\* executeCommand(command), up to the dispatch to the executor
ExecStart(a) ==
    /\ pc[a] = "received"
    /\ IF isCommandExecuted(guard[a], cur[a].id)
       THEN CatchError(a, "Command already executed")
       ELSE /\ pc' = [pc EXCEPT ![a] = "executing"]
            /\ UNCHANGED <<cur, res, lastError, fenced, abandoned>>
    /\ UNCHANGED <<guard, crashes, http>>
    /\ UNCHANGED serverVars
    /\ UNCHANGED <<claimCount, acceptCount, execDone, win, lastEvent, claimedFrom,
                   lastCall, lostMark, lostExec, lostReport>>

\* result = await executeDelay(command) / executeHttpGetJson(command) returns
ExecReturn(a, r) ==
    /\ pc[a] = "executing"
    /\ r \in ResultsOf(cur[a].type)
    /\ pc' = [pc EXCEPT ![a] = "executed"]
    /\ res' = [res EXCEPT ![a] = r]
    /\ execDone' = [execDone EXCEPT ![a][cur[a].id] = Min(@ + 1, MaxExecCount)]
    /\ UNCHANGED <<cur, guard, lastError, crashes, http>>
    /\ UNCHANGED serverVars
    /\ UNCHANGED <<claimCount, acceptCount, fenced, win, lastEvent, claimedFrom,
                   lastCall, lostMark, lostExec, lostReport, abandoned>>

\* Mutant of Mark: executeCommand returns without markCommandExecuted.
Mark_Skipped(a) ==
    /\ pc[a] = "executed"
    /\ pc' = [pc EXCEPT ![a] = "submit"]
    /\ UNCHANGED <<cur, res, guard, lastError, crashes, http>>
    /\ UNCHANGED serverVars
    /\ UNCHANGED histVars

\* markCommandExecuted(command.id); return result
Mark(a) ==
    /\ pc[a] = "executed"
    /\ guard' = [guard EXCEPT ![a] = markCommandExecuted(@, cur[a].id, now)]
    /\ pc' = [pc EXCEPT ![a] = "submit"]
    /\ UNCHANGED <<cur, res, lastError, crashes, http>>
    /\ UNCHANGED serverVars
    /\ UNCHANGED histVars

\* await submitResult(command.id, result, config.agentId), answered by the server
Submit(a) ==
    /\ pc[a] = "submit"
    /\ server = "up"
    /\ updateCommandResult(cur[a].id, a, res[a])
    /\ IF SubmitStatus(commands, cur[a].id, a, res[a]) = 200
       THEN /\ EndCycle(a, "poll")
            /\ UNCHANGED <<lastError, abandoned>>
       ELSE CatchError(a, "Request failed")
    /\ UNCHANGED <<guard, crashes, http>>
    /\ UNCHANGED <<server, now, restarts, claimCount, execDone, win, lastEvent,
                   lostMark, lostExec, lostReport>>

\* submitResult throws: the server is down or the request fails.
SubmitFail(a) ==
    /\ pc[a] = "submit"
    /\ CatchError(a, "transport")
    /\ UNCHANGED <<guard, crashes, http>>
    /\ UNCHANGED serverVars
    /\ UNCHANGED <<claimCount, acceptCount, execDone, win, lastEvent, claimedFrom,
                   lastCall, lostMark, lostExec, lostReport>>

\* ------------------------------------------------------------ specification
AgentStep(a) ==
    \/ \E picked \in CommandIds \cup {0} : Poll(a, picked)
    \/ Sleep(a)
    \/ ExecStart(a)
    \/ \E r \in Results : ExecReturn(a, r)
    \/ Mark(a)
    \/ Submit(a)

\* The types of the commands submitted: DELAY and HTTP_GET_JSON in turn (the
\* coordination never reads the type; only the executor dispatch does).
NthType(id) == IF id % 2 = 1 THEN "DELAY" ELSE "HTTP_GET_JSON"

\* The agents' poll loops, command submission and control-server restarts.
\* The clock stands still: every createdAt is equal, so findNextPending may
\* return any eligible command, which covers every order a clock would impose.
LoopNext ==
    \/ \E id \in CommandIds : CreateCommand(id, NthType(id))
    \/ ServerCrash
    \/ ServerStart
    \/ \E a \in Agents : AgentStart(a)
    \/ \E a \in Agents : HookCrash(a)
    \/ \E a \in Agents : AgentKill(a)
    \/ \E a \in Agents : AgentStep(a)
    \/ \E a \in Agents : PollFail(a)
    \/ \E a \in Agents : SubmitFail(a)

\* request bodies of PUT /commands/:id/result that lack agentId or result
BadBodies ==
    {[agentId |-> NullAgent, result |-> [ok |-> TRUE, tookMs |-> 1]],
     [agentId |-> 1, result |-> MissingResult]}

\* The control server and its clock, driven by arbitrary HTTP clients: every
\* request a poll loop can send is one of RawClaim / RawSubmit.
ServerNext ==
    \/ \E id \in CommandIds : CreateCommand(id, NthType(id))
    \/ ServerCrash
    \/ ServerStart
    \/ Tick
    \/ \E a \in Agents \cup {NullAgent}, picked \in CommandIds \cup {0} :
          RawClaim(a, picked)
    \/ \E id \in CommandIds \cup {UnknownId}, a \in Agents, r \in Results :
          RawSubmit(id, a, r)
    \/ \E id \in CommandIds \cup {UnknownId}, body \in BadBodies :
          RawSubmit(id, body.agentId, body.result)
    \/ \E id \in CommandIds \cup {UnknownId} : RawGet(id)
    \/ RawList

Next ==
    \/ LoopNext
    \/ ServerNext

\* The whole system.
Spec == Init /\ [][Next]_vars

\* The control server with the agents' poll loops as its only claim / submit clients.
LoopSpec == Init /\ [][LoopNext]_vars

\* The control server under arbitrary clients.
ServerSpec == Init /\ [][ServerNext]_vars


\* Command submission and claims under a wall clock that may also be set back.
ClockNext ==
    \/ \E id \in CommandIds : CreateCommand(id, NthType(id))
    \/ ServerCrash
    \/ ServerStart
    \/ Tick
    \/ ClockStepBack
    \/ \E a \in Agents, picked \in CommandIds \cup {0} : RawClaim(a, picked)

ClockSpec == Init /\ [][ClockNext]_vars

\* The HTTP_GET_JSON executor is called for a text of `length` characters.
Fetch(length) ==
    /\ http' = [length |-> length, result |-> executeHttpGetJson(length)]
    /\ UNCHANGED <<pc, cur, res, guard, lastError, crashes>>
    /\ UNCHANGED serverVars
    /\ UNCHANGED histVars

\* The HTTP_GET_JSON executor is called and the fetch fails.
FetchFail ==
    /\ http' = [length |-> 0, result |-> executeHttpGetJsonFailed]
    /\ UNCHANGED <<pc, cur, res, guard, lastError, crashes>>
    /\ UNCHANGED serverVars
    /\ UNCHANGED histVars

\* The executor alone, called as its tests call it.
HttpNext ==
    \/ \E length \in BodyLengths : Fetch(length)
    \/ FetchFail

HttpSpec == Init /\ [][HttpNext]_vars

\* The poll loops when requests fail only while the control server is down.
FairNext ==
    \/ \E id \in CommandIds : CreateCommand(id, NthType(id))
    \/ ServerCrash
    \/ ServerStart
    \/ \E a \in Agents : AgentStart(a)
    \/ \E a \in Agents : HookCrash(a)
    \/ \E a \in Agents : AgentKill(a)
    \/ \E a \in Agents : AgentStep(a)
    \/ \E a \in Agents : server = "down" /\ PollFail(a)
    \/ \E a \in Agents : server = "down" /\ SubmitFail(a)

\* Every poll loop keeps stepping, every dead agent is started again and the
\* control server comes back after each of its (at most MaxRestarts) crashes.
FairSpec ==
    /\ Init
    /\ [][FairNext]_vars
    /\ \A a \in Agents : WF_vars(AgentStep(a)) /\ WF_vars(AgentStart(a))
    /\ WF_vars(ServerStart)

\* ------------------------------------------------------------------ claims
\* A step in which the running control server answers one request.
RequestStep == server = "up" /\ server' = "up" /\ now' = now /\ lastResp'.op # "none"

\* C1: between two consecutive recover() calls every command id is returned
\* by at most one claim call, whoever calls claim and in whatever order.
C1_NoDoubleAssignment ==
    \A id \in CommandIds : claimCount[id] <= 1

\* A command is bound to an agent and a later claim in the same run of the
\* server came back empty.
C1_Witness ==
    \E id \in DOMAIN commands :
        /\ commands[id].status = "RUNNING"
        /\ claimCount[id] = 1
        /\ lastResp.op = "next" /\ lastResp.status = 204
        /\ lastResp.agentId # commands[id].agentId

\* C2: in a window without create or recover that opens with N eligible
\* commands, claims return only commands of those N, no command twice, and
\* none only once all N have been returned: the first N claims return the N
\* commands, one each, and claim N+1 returns none.
C2_ClaimsExhaustEligibility ==
    /\ win.returned \subseteq win.elig
    /\ ~win.dup
    /\ ~win.early
    /\ win.returned = win.elig => Eligible(commands) = {}

\* Two eligible commands were both claimed and a third claim returned none.
C2_Witness ==
    /\ Cardinality(win.elig) = MaxCommands
    /\ win.returned = win.elig
    /\ win.none

\* C3: at most one submit per command is accepted, the result is written by
\* that submit only, and a COMPLETED command keeps its status and result.
C3_ReportedAtMostOnce ==
    /\ [](\A id \in CommandIds : acceptCount[id] <= 1)
    /\ [][\A id \in DOMAIN commands :
            /\ commands[id].status = "COMPLETED"
                 => /\ commands'[id].status = "COMPLETED"
                    /\ commands'[id].result = commands[id].result
            /\ commands'[id].result # commands[id].result
                 => /\ acceptCount'[id] = acceptCount[id] + 1
                    /\ commands[id].result = NullResult]_vars

\* A COMPLETED command got a second, well-formed submit from its own agent
\* carrying another result, and the submit was refused.
C3_Witness ==
    \E id \in DOMAIN commands :
        /\ commands[id].status = "COMPLETED"
        /\ acceptCount[id] = 1
        /\ lastResp = Response("result", id, commands[id].agentId, 4001)


\* Agent a's loop leaves its submitResult call with an answer of the server.
SubmitAnswered(a) ==
    /\ pc[a] = "submit"
    /\ pc'[a] \in {"poll", "sleep"}
    /\ lastError'[a] # "transport"

\* C5: an agent that was killed after it recorded an id in its guard and
\* before its submit was answered, and then receives that id from claim again,
\* goes on to submit it (without running the executor).
C5_GuardHitGoesToSubmit ==
    [][\A a \in Agents :
          (/\ pc[a] = "received"
           /\ cur[a].id \in lostReport[a]
           /\ pc'[a] \notin {"received", "dead"})
              => pc'[a] = "submit"]_vars

BoundTo(a) ==
    /\ cur[a].id \in DOMAIN commands
    /\ commands[cur[a].id].status = "RUNNING"
    /\ commands[cur[a].id].agentId = a

\* C8 as claimed: at most one agent runs the executor for a command id, and
\* the command is bound to that agent meanwhile, also across server restarts.
C8_ExclusiveExecution ==
    /\ \A a \in Agents : pc[a] = "executing" => BoundTo(a)
    /\ \A a, b \in Agents :
          (a # b /\ pc[a] = "executing" /\ pc[b] = "executing")
              => cur[a].id # cur[b].id

\* C8 as amended: the same, for the agents whose claim no recover() followed.
C8_ExclusiveUnlessRecovered ==
    /\ \A a \in Agents : (pc[a] = "executing" /\ ~fenced[a]) => BoundTo(a)
    /\ \A a, b \in Agents :
          (a # b /\ pc[a] = "executing" /\ pc[b] = "executing"
             /\ ~fenced[a] /\ ~fenced[b])
              => cur[a].id # cur[b].id

\* Two agents run the executor for the same id: one claimed it before a
\* recover(), the other after it, and the store binds it to the latter.
C8_Witness ==
    \E a, b \in Agents :
        /\ a # b
        /\ pc[a] = "executing" /\ pc[b] = "executing"
        /\ cur[a].id = cur[b].id
        /\ fenced[a] /\ ~fenced[b]
        /\ BoundTo(b)

\* C9: the submit of an agent whose command is now RUNNING for another agent
\* is answered "not assigned to this agent" and changes no row.
C9_FencedOutSubmitRejected ==
    [][\A a \in Agents :
          (/\ SubmitAnswered(a)
           /\ cur[a].id \in DOMAIN commands
           /\ commands[cur[a].id].status = "RUNNING"
           /\ commands[cur[a].id].agentId # a)
              => /\ lastResp' = Response("result", cur[a].id, a, 4002)
                 /\ lastError'[a] = "Request failed"
                 /\ commands' = commands
                 /\ acceptCount' = acceptCount]_vars

\* An agent's submit for a command it had claimed was refused because the
\* command had been reclaimed and is bound to another agent.
C9_Witness ==
    \E a \in Agents, id \in DOMAIN commands :
        /\ lastResp = Response("result", id, a, 4002)
        /\ pc[a] = "sleep"
        /\ lastError[a] = "Request failed"
        /\ id \in DOMAIN guard[a]
        /\ commands[id].status = "RUNNING"
        /\ commands[id].agentId \notin {a, NullAgent}
        /\ commands[id].result = NullResult

\* id is eligible and strictly older than every other eligible command.
OldestEligible(cmds, id) ==
    /\ id \in Eligible(cmds)
    /\ \A other \in Eligible(cmds) \ {id} : cmds[id].createdAt < cmds[other].createdAt

\* C10: recover() leaves every command that was RUNNING as FAILED with no
\* agent, and a claim for which such a command is the oldest eligible one
\* returns it, RUNNING and bound to the caller.
C10_RecoveredWorkReEligible ==
    /\ [][(server = "down" /\ server' = "up")
            => \A id \in DOMAIN commands :
                 commands[id].status = "RUNNING"
                    => /\ commands'[id].status = "FAILED"
                       /\ commands'[id].agentId = NullAgent]_vars
    /\ [][\A a \in Agents, id \in DOMAIN commands :
            (/\ RequestStep
             /\ lastResp'.op = "next" /\ lastResp'.agentId = a
             /\ commands[id].status = "FAILED"
             /\ OldestEligible(commands, id))
                => /\ lastResp' = Response("next", id, a, 200)
                   /\ commands'[id].status = "RUNNING"
                   /\ commands'[id].agentId = a]_vars

\* A FAILED command was claimed ahead of a newer eligible one.
C10_Witness ==
    \E id \in DOMAIN commands, other \in Eligible(commands) :
        /\ claimedFrom = "FAILED"
        /\ lastResp = Response("next", id, commands[id].agentId, 200)
        /\ commands[id].status = "RUNNING"
        /\ commands[id].createdAt < commands[other].createdAt


\* C4: under FairSpec every created command eventually reaches COMPLETED.
C4_NoCommandLost ==
    \A id \in CommandIds :
        (id \in DOMAIN commands)
            ~> (id \in DOMAIN commands /\ commands[id].status = "COMPLETED")


\* The step in which start() runs recover() and begins to listen.
RecoverStep == server = "down" /\ server' = "up"

RunningIds(cmds) == {id \in DOMAIN cmds : cmds[id].status = "RUNNING"}

\* C11: recover() turns every RUNNING command into FAILED with agentId and
\* assignedAt null and updatedAt = now, leaves every other command and every
\* other field as it was, leaves no command RUNNING, and returns the number
\* of commands that were RUNNING.
C11_RecoverChangesExactlyRunning ==
    [][RecoverStep =>
          /\ DOMAIN commands' = DOMAIN commands
          /\ \A id \in DOMAIN commands :
                commands'[id] =
                    IF commands[id].status = "RUNNING"
                    THEN [commands[id] EXCEPT !.status = "FAILED",
                                              !.agentId = NullAgent,
                                              !.assignedAt = NullTime,
                                              !.updatedAt = now]
                    ELSE commands[id]
          /\ RunningIds(commands') = {}
          /\ lastCall'.count = Cardinality(RunningIds(commands))]_vars

\* recover() has just reclaimed one command, at a later time than its claim,
\* next to a COMPLETED command that kept its owner.
C11_Witness ==
    \E id, other \in DOMAIN commands :
        /\ lastCall.count = 1
        /\ commands[id].status = "FAILED"
        /\ commands[id].agentId = NullAgent
        /\ commands[id].assignedAt = NullTime
        /\ commands[id].updatedAt = now
        /\ commands[id].createdAt < now
        /\ commands[other].status = "COMPLETED"
        /\ commands[other].agentId # NullAgent

\* C12: a second recover() right after a first one (no claim in between)
\* returns 0 and changes no command.
C12_RecoveryIdempotent ==
    /\ [](\A t1, t2 \in 0..MaxTime :
            /\ resetRunningToFailed(resetRunningToFailed(commands, t1), t2)
                  = resetRunningToFailed(commands, t1)
            /\ RunningIds(resetRunningToFailed(commands, t1)) = {})
    /\ [][(/\ RecoverStep
           /\ restarts >= 1
           /\ \A id \in CommandIds : claimCount[id] = 0)
              => /\ lastCall'.count = 0
                 /\ commands' = commands]_vars

\* The second recover() returned 0 and left alone a command that the first
\* one had reclaimed at an earlier time.
C12_Witness ==
    \E id \in DOMAIN commands :
        /\ restarts = 2
        /\ lastCall.count = 0
        /\ commands[id].status = "FAILED"
        /\ commands[id].agentId = NullAgent
        /\ commands[id].updatedAt < now

\* C13: every start of the control server runs recover() once, before any
\* request is answered; no other step runs it, so a RUNNING command is never
\* released while the server is serving; requests are answered only while
\* the server is up.
C13_RecoverOnlyAtStart ==
    /\ [][RecoverStep =>
            /\ restarts' = restarts + 1
            /\ lastCall'.count # NoCount
            /\ lastResp' = lastResp
            /\ RunningIds(commands') = {}]_vars
    /\ [][~RecoverStep =>
            /\ lastCall'.count = NoCount \/ lastCall' = lastCall
            /\ \A id \in RunningIds(commands) :
                  /\ commands'[id].status \in {"RUNNING", "COMPLETED"}
                  /\ commands'[id].agentId = commands[id].agentId
                  /\ commands'[id].assignedAt = commands[id].assignedAt]_vars
    /\ [][lastResp'.op \in {"next", "result"} /\ lastResp' # lastResp
            => server = "up" /\ server' = "up"]_vars

\* After a restart one command was reclaimed and stays FAILED while another
\* one, claimed after the start, is RUNNING.
C13_Witness ==
    \E id, other \in DOMAIN commands :
        /\ restarts >= 1
        /\ server = "up"
        /\ commands[id].status = "FAILED"
        /\ commands[other].status = "RUNNING"
        /\ claimCount[other] = 1
        /\ lastResp = Response("next", other, commands[other].agentId, 200)


\* A step in which a claim request is answered with command id.
ClaimReturns(id) ==
    /\ RequestStep
    /\ lastResp'.op = "next"
    /\ lastResp'.status = 200
    /\ lastResp'.id = id
    /\ commands' # commands

\* ids are given in the order of the createCommand calls
StrictlyIncreasing(cmds) ==
    \A a, b \in DOMAIN cmds : a < b => cmds[a].createdAt < cmds[b].createdAt

\* C14: when createdAt is strictly increasing in creation order, a claim
\* returns an eligible command with the smallest createdAt of those eligible.
C14_FIFO ==
    [][\A id \in DOMAIN commands :
          (ClaimReturns(id) /\ StrictlyIncreasing(commands))
              => /\ id \in Eligible(commands)
                 /\ \A other \in Eligible(commands) \ {id} :
                       commands[id].createdAt < commands[other].createdAt]_vars

\* The first of two PENDING commands with increasing createdAt was claimed.
C14_Witness ==
    \E id \in DOMAIN commands, other \in Eligible(commands) :
        /\ StrictlyIncreasing(commands)
        /\ lastResp = Response("next", id, commands[id].agentId, 200)
        /\ claimedFrom = "PENDING"
        /\ commands[id].status = "RUNNING"
        /\ commands[other].status = "PENDING"
        /\ id < other

\* C15: a claim never returns a command while a command created before it is
\* eligible, whatever clock values the two createCommand calls read.
C15_StrictCreationOrder ==
    [][\A id \in DOMAIN commands :
          ClaimReturns(id) => \A other \in Eligible(commands) : ~(other < id)]_vars

\* C16: a claim never returns a command while a command of the other eligible
\* status with a smaller createdAt is eligible.
C16_StatusBlindOrder ==
    [][\A id \in DOMAIN commands :
          ClaimReturns(id)
              => \A other \in Eligible(commands) :
                    commands[other].status # commands[id].status
                        => commands[id].createdAt <= commands[other].createdAt]_vars

\* A PENDING command was claimed ahead of a FAILED one with a larger createdAt.
C16_Witness ==
    \E id \in DOMAIN commands, other \in Eligible(commands) :
        /\ lastResp = Response("next", id, commands[id].agentId, 200)
        /\ claimedFrom = "PENDING"
        /\ commands[other].status = "FAILED"
        /\ commands[id].createdAt < commands[other].createdAt


\* C17: a claim that finds an eligible command sets, in one step, its status
\* to RUNNING, its agentId to the caller and assignedAt and updatedAt to now,
\* changes nothing else in the store, and returns the row as stored after
\* the update, field by field.
C17_ClaimBindsAtomically ==
    [][\A id \in DOMAIN commands, a \in Agents :
          (ClaimReturns(id) /\ lastResp'.agentId = a)
              => /\ DOMAIN commands' = DOMAIN commands
                 /\ commands'[id] = [commands[id] EXCEPT !.status = "RUNNING",
                                                         !.agentId = a,
                                                         !.assignedAt = now,
                                                         !.updatedAt = now]
                 /\ \A other \in DOMAIN commands \ {id} :
                       commands'[other] = commands[other]
                 /\ lastCall'.command = mapRowToCommand(commands'[id])
                 /\ lastCall'.command.payload = PayloadOf(commands[id].type)]_vars

\* A FAILED command created earlier was claimed: the returned value shows
\* RUNNING, the caller and the time of the claim.
C17_Witness ==
    \E id \in DOMAIN commands :
        /\ lastResp = Response("next", id, 2, 200)
        /\ claimedFrom = "FAILED"
        /\ lastCall.command.id = id
        /\ lastCall.command.status = "RUNNING"
        /\ lastCall.command.agentId = 2
        /\ lastCall.command.assignedAt = now
        /\ lastCall.command.updatedAt = now
        /\ lastCall.command.createdAt < now
        /\ lastCall.command = getCommandById(commands, id)

\* C18: a claim made when no command is PENDING or FAILED is answered 204
\* (no content, not an error), returns no command and changes no row.
C18_NoWorkNoEffect ==
    [][\A a \in Agents :
          (/\ RequestStep
           /\ lastResp'.op = "next" /\ lastResp'.agentId = a
           /\ Eligible(commands) = {})
              => /\ lastResp' = Response("next", 0, a, 204)
                 /\ lastCall'.command = NoCommand
                 /\ commands' = commands]_vars

\* Every command is COMPLETED or RUNNING and the last claim got 204.
C18_Witness ==
    /\ Cardinality(DOMAIN commands) = MaxCommands
    /\ \E id \in DOMAIN commands : commands[id].status = "COMPLETED"
    /\ \E id \in DOMAIN commands : commands[id].status = "RUNNING"
    /\ Eligible(commands) = {}
    /\ lastResp.op = "next" /\ lastResp.status = 204
    /\ lastCall = NoCall

\* A step in which a submit request for command id is answered.
SubmitStep(id) ==
    /\ RequestStep
    /\ lastResp'.op = "result"
    /\ lastResp'.id = id

C20_NotRunningRejected ==
    [][\A id \in DOMAIN commands :
          (SubmitStep(id) /\ commands[id].status # "RUNNING")
              => /\ lastResp'.status = 4001
                 /\ commands' = commands]_vars

\* C20 as amended: the same for every submit that carries a result and an
\* agentId; any submit on such a command changes no row.
C20_NotRunningRejectedIfWellFormed ==
    [][\A id \in DOMAIN commands :
          (SubmitStep(id) /\ commands[id].status # "RUNNING")
              => /\ commands' = commands
                 /\ acceptCount' = acceptCount
                 /\ lastResp'.status \in {4000, 4001}
                 /\ lastResp'.status = 4000
                       <=> (lastCall'.result = MissingResult
                              \/ lastResp'.agentId = NullAgent)]_vars

\* A submit with a result was refused on a FAILED command.
C20_Witness ==
    \E id \in DOMAIN commands :
        /\ lastResp.op = "result" /\ lastResp.id = id
        /\ lastResp.status = 4001
        /\ lastResp.agentId # NullAgent
        /\ lastCall.result \in Results
        /\ commands[id].status = "FAILED"
        /\ commands[id].result = NullResult


\* The submit answered in this step carries an agentId and a result.
WellFormedSubmit == lastResp'.agentId \in Agents /\ lastCall'.result \in Results

\* C21: a submit for a RUNNING command by an agent other than the one it is
\* bound to is answered "Command is not assigned to this agent" and changes
\* no field of any row.
C21_MismatchRejected ==
    [][\A id \in DOMAIN commands :
          (/\ SubmitStep(id)
           /\ WellFormedSubmit
           /\ commands[id].status = "RUNNING"
           /\ commands[id].agentId # lastResp'.agentId)
              => /\ lastResp'.status = 4002
                 /\ commands' = commands
                 /\ acceptCount' = acceptCount]_vars

\* The submit of another agent was refused at a later time than the claim:
\* the row is RUNNING for its owner, without result, and was not refreshed.
C21_Witness ==
    \E id \in DOMAIN commands :
        /\ lastResp.op = "result" /\ lastResp.id = id /\ lastResp.status = 4002
        /\ lastResp.agentId \in Agents \ {commands[id].agentId}
        /\ lastCall.result \in Results
        /\ commands[id].status = "RUNNING"
        /\ commands[id].agentId \in Agents
        /\ commands[id].result = NullResult
        /\ commands[id].updatedAt = commands[id].assignedAt
        /\ commands[id].updatedAt < now

\* C22: submit checks existence, then status, then ownership: an unknown id
\* is answered "Command not found" with no row changed, and a command that
\* is neither RUNNING nor bound to the caller is answered "not in RUNNING
\* state".
C22_CheckOrder ==
    [][\A id \in CommandIds \cup {UnknownId} :
          (SubmitStep(id) /\ WellFormedSubmit)
              => /\ id \notin DOMAIN commands
                    => lastResp'.status = 404 /\ commands' = commands
                 /\ (/\ id \in DOMAIN commands
                     /\ commands[id].status # "RUNNING"
                     /\ commands[id].agentId # lastResp'.agentId)
                    => lastResp'.status = 4001 /\ commands' = commands
                 /\ lastResp'.status \in {404, 4001, 4002, 200}]_vars

\* A COMPLETED command bound to one agent was submitted by another agent.
C22_Witness ==
    \E id \in DOMAIN commands :
        /\ lastResp.op = "result" /\ lastResp.id = id /\ lastResp.status = 4001
        /\ lastCall.result \in Results
        /\ commands[id].status = "COMPLETED"
        /\ commands[id].agentId \in Agents
        /\ lastResp.agentId \in Agents \ {commands[id].agentId}

\* C23: a command has a result exactly when it is COMPLETED.
C23_ResultIffCompleted ==
    \A id \in DOMAIN commands :
        /\ (commands[id].result # NullResult) <=> (commands[id].status = "COMPLETED")
        /\ (getCommandById(commands, id).result # NullResult)
              <=> (commands[id].status = "COMPLETED")

\* One command is COMPLETED with its result, another was claimed, reclaimed
\* by recover() and has none.
C23_Witness ==
    \E id, other \in DOMAIN commands :
        /\ commands[id].status = "COMPLETED"
        /\ getCommandById(commands, id).result \in Results
        /\ commands[other].status = "FAILED"
        /\ commands[other].result = NullResult
        /\ server = "up"
        /\ lastResp.op = "get"

\* C24: a command's status changes only from PENDING or FAILED to RUNNING in
\* a claim, from RUNNING to COMPLETED in a submit and from RUNNING to FAILED
\* in recover().
C24_StatusTransitions ==
    [][\A id \in DOMAIN commands :
          /\ id \in DOMAIN commands'
          /\ commands'[id].status # commands[id].status
                => \/ /\ commands[id].status \in {"PENDING", "FAILED"}
                      /\ commands'[id].status = "RUNNING"
                      /\ ClaimReturns(id)
                   \/ /\ commands[id].status = "RUNNING"
                      /\ commands'[id].status = "COMPLETED"
                      /\ SubmitStep(id) /\ lastResp'.status = 200
                   \/ /\ commands[id].status = "RUNNING"
                      /\ commands'[id].status = "FAILED"
                      /\ RecoverStep]_vars

\* One command went all the way to COMPLETED; another was reclaimed by
\* recover() and has just been claimed again.
C24_Witness ==
    \E id, other \in DOMAIN commands :
        /\ commands[id].status = "COMPLETED"
        /\ commands[other].status = "RUNNING"
        /\ claimedFrom = "FAILED"
        /\ lastResp = Response("next", other, commands[other].agentId, 200)


\* C25: under a clock that never goes back, every command has
\* createdAt <= updatedAt, and assignedAt null or >= createdAt.
C25_TimestampOrder ==
    \A id \in DOMAIN commands :
        /\ commands[id].createdAt <= commands[id].updatedAt
        /\ \/ commands[id].assignedAt = NullTime
           \/ commands[id].assignedAt >= commands[id].createdAt

\* A command created at one time is RUNNING, claimed at a later time.
C25_Witness ==
    \E id \in DOMAIN commands :
        /\ commands[id].status = "RUNNING"
        /\ commands[id].createdAt < commands[id].assignedAt
        /\ commands[id].assignedAt = commands[id].updatedAt
        /\ commands[id].agentId \in Agents

\* C26: under a clock that never goes back, no step lowers a command's
\* updatedAt and no step changes its createdAt.
C26_UpdatedAtMonotone ==
    [][\A id \in DOMAIN commands :
          /\ id \in DOMAIN commands'
          /\ commands'[id].updatedAt >= commands[id].updatedAt
          /\ commands'[id].createdAt = commands[id].createdAt]_vars

\* A command claimed at its creation time was completed at a later time.
C26_Witness ==
    \E id \in DOMAIN commands :
        /\ commands[id].status = "COMPLETED"
        /\ commands[id].createdAt = commands[id].assignedAt
        /\ commands[id].assignedAt < commands[id].updatedAt
        /\ acceptCount[id] = 1

\* C27: agentId and assignedAt of a command change only in a claim that
\* returns it (to the caller and to now) and in recover() (to null).
C27_OwnerChangesOnlyByClaimAndRecover ==
    [][\A id \in DOMAIN commands :
          /\ id \in DOMAIN commands'
          /\ (\/ commands'[id].agentId # commands[id].agentId
              \/ commands'[id].assignedAt # commands[id].assignedAt)
                => \/ /\ ClaimReturns(id)
                      /\ commands[id].agentId = NullAgent
                      /\ commands'[id].agentId = lastResp'.agentId
                      /\ commands'[id].assignedAt = now
                   \/ /\ RecoverStep
                      /\ commands[id].status = "RUNNING"
                      /\ commands'[id].agentId = NullAgent
                      /\ commands'[id].assignedAt = NullTime]_vars

\* A command completed earlier still shows its owner and its claim time
\* after a later create and a listing.
C27_Witness ==
    \E id, other \in DOMAIN commands :
        /\ lastResp.op = "list"
        /\ commands[id].status = "COMPLETED"
        /\ commands[id].agentId \in Agents
        /\ commands[id].assignedAt # NullTime
        /\ commands[id].updatedAt < commands[other].createdAt

\* C28: no step removes a command or changes the id, type or payload of one.
C28_CommandsPersist ==
    [][\A id \in DOMAIN commands :
          /\ id \in DOMAIN commands'
          /\ commands'[id].id = commands[id].id
          /\ commands'[id].type = commands[id].type
          /\ commands'[id].payload = commands[id].payload]_vars

\* After the last restart all commands are there, with the type and payload
\* they were created with.
C28_Witness ==
    /\ restarts = MaxRestarts
    /\ DOMAIN commands = CommandIds
    /\ \A id \in CommandIds :
          /\ commands[id].id = id
          /\ commands[id].type = NthType(id)
          /\ JSONParse(commands[id].payload) = PayloadOf(NthType(id))
    /\ \E id \in CommandIds : commands[id].status = "COMPLETED"
    /\ \E id \in CommandIds : commands[id].status = "FAILED"

\* C29: createCommand adds one command under an id no command has, PENDING,
\* createdAt = updatedAt = now, result, agentId and assignedAt null, returns
\* the id, and changes no other command.
C29_CreateAddsOnePending ==
    [][(RequestStep /\ lastResp'.op = "create" /\ commands' # commands)
          => /\ lastResp'.status = 201
             /\ lastResp'.id \notin DOMAIN commands
             /\ DOMAIN commands' = DOMAIN commands \cup {lastResp'.id}
             /\ commands'[lastResp'.id].type \in CommandTypes
             /\ commands'[lastResp'.id] =
                   [id |-> lastResp'.id,
                    type |-> commands'[lastResp'.id].type,
                    payload |-> JSONStringify(PayloadOf(commands'[lastResp'.id].type)),
                    status |-> "PENDING", result |-> NullResult,
                    agentId |-> NullAgent, createdAt |-> now, updatedAt |-> now,
                    assignedAt |-> NullTime]
             /\ \A other \in DOMAIN commands : commands'[other] = commands[other]]_vars

\* A second command was just created at a later time next to a COMPLETED one.
C29_Witness ==
    \E id, other \in DOMAIN commands :
        /\ lastResp = Response("create", id, NullAgent, 201)
        /\ commands[id].status = "PENDING"
        /\ commands[id].createdAt = now
        /\ commands[id].updatedAt = now
        /\ commands[other].status = "COMPLETED"
        /\ commands[other].updatedAt < now


\* C30: once markCommandExecuted(id) has run on an agent, isCommandExecuted(id)
\* is true there in every later state (restarts of the agent included); it is
\* false for an id that was never marked; marking an id again changes
\* nothing, and marking never changes the answer for another id.
C30_GuardRoundTrip ==
    /\ [](\A a \in Agents, id \in CommandIds, t1, t2 \in 0..MaxTime :
            /\ isCommandExecuted(markCommandExecuted(guard[a], id, t1), id)
            /\ markCommandExecuted(markCommandExecuted(guard[a], id, t1), id, t2)
                  = markCommandExecuted(guard[a], id, t1)
            /\ \A other \in CommandIds \ {id} :
                  isCommandExecuted(markCommandExecuted(guard[a], id, t1), other)
                      <=> isCommandExecuted(guard[a], other))
    /\ [][\A a \in Agents, id \in CommandIds :
            /\ isCommandExecuted(guard[a], id) => isCommandExecuted(guard'[a], id)
            /\ (~isCommandExecuted(guard[a], id) /\ isCommandExecuted(guard'[a], id))
                  => pc[a] = "executed" /\ pc'[a] = "submit" /\ cur[a].id = id
            /\ (pc[a] = "executed" /\ pc'[a] = "submit" /\ cur[a].id = id)
                  => isCommandExecuted(guard'[a], id)]_vars

\* An agent that marked one command and was killed is running again: the
\* marked id is found, the other id is not.
C30_Witness ==
    \E a \in Agents, id \in CommandIds, other \in CommandIds :
        /\ id \in lostReport[a]
        /\ pc[a] \notin {"dead", "submit"}
        /\ isCommandExecuted(guard[a], id)
        /\ ~isCommandExecuted(guard[a], other)
        /\ other \in DOMAIN commands

\* C31: the execution records of an agent hold one executedAt per command id;
\* a row once created is never updated or deleted, whatever the agent does
\* (kills and restarts included), so the set of recorded ids only grows; and
\* markCommandExecuted for an id already recorded leaves its executedAt as it
\* was, whatever the time of the second call.
C31_RowsNeverChange ==
    /\ [][\A a \in Agents : \A id \in DOMAIN guard[a] :
            /\ id \in DOMAIN guard'[a]
            /\ guard'[a][id] = guard[a][id]]_vars
    /\ [](\A a \in Agents : \A id \in DOMAIN guard[a] : \A t \in 0..(MaxTime + 1) :
            /\ DOMAIN markCommandExecuted(guard[a], id, t) = DOMAIN guard[a]
            /\ markCommandExecuted(guard[a], id, t)[id] = guard[a][id]
            /\ guard[a][id] \in 0..MaxTime)

\* An agent was killed with one id recorded, was started again and recorded
\* the other id: both rows are there.
C31_Witness ==
    \E a \in Agents :
        /\ lostReport[a] # {}
        /\ pc[a] = "submit"
        /\ DOMAIN guard[a] = CommandIds
        /\ cur[a].id \notin lostReport[a]

LoopErrors == {"transport", "Request failed", "Command already executed"}

C35_TruncatesAt100KB ==
    (http.result # NullResult /\ http.result.error = "null") =>
        /\ http.result.truncated = (http.length > 102400)
        /\ http.result.bytesReturned = Min(http.length, 102400)
        /\ http.result.bytesReturned <= 102400
        /\ ~http.result.truncated => http.result.bytesReturned = http.length

\* C36: binding invariant of the store.  A PENDING command has no agentId,
\* no assignedAt and no result; a FAILED command has no agentId and no
\* assignedAt; a RUNNING command has an agentId and an assignedAt, and
\* assignedAt <= updatedAt; a COMPLETED command has an agentId and an
\* assignedAt.
C36_BindingInvariant ==
    \A id \in DOMAIN commands :
        /\ commands[id].status = "PENDING" =>
              /\ commands[id].agentId = NullAgent
              /\ commands[id].assignedAt = NullTime
              /\ commands[id].result = NullResult
        /\ commands[id].status = "FAILED" =>
              /\ commands[id].agentId = NullAgent
              /\ commands[id].assignedAt = NullTime
        /\ commands[id].status = "RUNNING" =>
              /\ commands[id].agentId # NullAgent
              /\ commands[id].assignedAt # NullTime
              /\ commands[id].assignedAt <= commands[id].updatedAt
        /\ commands[id].status = "COMPLETED" =>
              /\ commands[id].agentId # NullAgent
              /\ commands[id].assignedAt # NullTime

\* One command was completed some time after it was assigned, another was
\* taken back from its agent by a recover.
C36_Witness ==
    \E i, j \in DOMAIN commands :
        /\ commands[i].status = "COMPLETED"
        /\ commands[i].agentId \in Agents
        /\ commands[i].assignedAt < commands[i].updatedAt
        /\ commands[j].status = "FAILED"
        /\ commands[j].agentId = NullAgent

C38_CompletedImpliesRecorded ==
    \A id \in DOMAIN commands :
        commands[id].status = "COMPLETED" =>
            /\ commands[id].agentId \in Agents
            /\ id \in DOMAIN guard[commands[id].agentId]

\* A command is COMPLETED by an agent that was killed in one of its cycles
\* and started again; that agent holds the record, another agent does not.
C38_Witness ==
    \E id \in DOMAIN commands : \E other \in Agents :
        /\ commands[id].status = "COMPLETED"
        /\ acceptCount[id] = 1
        /\ id \in DOMAIN guard[commands[id].agentId]
        /\ id \notin DOMAIN guard[other]
        /\ crashes >= 1
        /\ pc[commands[id].agentId] = "poll"
        /\ lastError[commands[id].agentId] = "none"
        /\ lostExec[commands[id].agentId] \cup lostMark[commands[id].agentId] # {}

C40_OneRunningPerAgent ==
    \A a \in Agents :
        Cardinality({id \in DOMAIN commands :
            commands[id].status = "RUNNING" /\ commands[id].agentId = a}) <= 1

\* C40 as amended: of the commands RUNNING with the agentId of an agent, only
\* the command of the agent's present cycle is held by its loop; every other
\* one was left RUNNING by a cycle of that agent that ended without an
\* accepted submit (an error or the end of the process) and has neither been
\* claimed again nor recovered since.  The loop holds no command when it
\* polls: it claims the next command only after the cycle of the previous
\* one has ended.
C40_OneRunningPerCycle ==
    \A a \in Agents :
        /\ {id \in DOMAIN commands :
                commands[id].status = "RUNNING" /\ commands[id].agentId = a}
              \subseteq abandoned[a] \cup {cur[a].id}
        /\ pc[a] \in {"dead", "poll", "sleep"} <=> cur[a] = NoCommand
        /\ (cur[a] # NoCommand /\ ~fenced[a]) =>
              /\ commands[cur[a].id].status = "RUNNING"
              /\ commands[cur[a].id].agentId = a

\* An agent holds one command in its present cycle while another command,
\* left by a cycle that ended in an error or a kill, is still RUNNING and
\* bound to it.
C40_Witness ==
    \E a \in Agents : \E id \in DOMAIN commands :
        /\ cur[a] # NoCommand
        /\ id # cur[a].id
        /\ id \in abandoned[a]
        /\ commands[id].status = "RUNNING" /\ commands[id].agentId = a
        /\ commands[cur[a].id].status = "RUNNING" /\ commands[cur[a].id].agentId = a

====
